---- MODULE Spec2Model ----
(***************************************************************************)
(* A model of VolcanoSimulation (src/volcano_models.py): the geographic    *)
(* grid built by __init__, the damage and ash intensity fields and the     *)
(* RGBA rasterizer _array_to_rgba.                                         *)
(*                                                                         *)
(* Python floats are modelled as fixed-point integers:                     *)
(*   angles in the bounding box    DEG units per degree                    *)
(*   lengths                       KM  units per kilometre                 *)
(*   intensities and other ratios  Q   units per 1.0                       *)
(*   the ratios squared in the Gaussian  RQ units per 1.0 (RQ * RQ = Q)    *)
(* Division rounds towards zero (Div), which keeps the sign symmetry of    *)
(* IEEE division.                                                          *)
(***************************************************************************)
EXTENDS Integers, Sequences, FiniteSets, TLC

\* grid:    the VolcanoSimulation object (NoGrid before construction)
\* build:   "new", then "ok" or the error the constructor raised
\* last:    the latest overlay call, its arguments and its outcome
\* first:   history: the first overlay call made on the object
\* between: history: a call that differs from `first` has been made
VARIABLES grid, build, first, last, between

vars == <<grid, build, first, last, between>>


(* Number representation *)

DEG == 10000
KM == 100
RQ == 100
Q == 10000

Abs(x) == IF x < 0 THEN -x ELSE x
Max(a, b) == IF a >= b THEN a ELSE b
Min(a, b) == IF a <= b THEN a ELSE b

\* float division a / b, b # 0, rounded towards zero
Div(a, b) ==
  LET q == Abs(a) \div Abs(b)
  IN  IF (a < 0) = (b < 0) THEN q ELSE -q

\* np.clip(x, lo, hi)
Clip(x, lo, hi) == IF x < lo THEN lo ELSE IF x > hi THEN hi ELSE x

RECURSIVE SqrtIter(_, _, _)
SqrtIter(n, lo, hi) ==
  IF lo >= hi THEN lo
  ELSE LET mid == (lo + hi + 1) \div 2
       IN  IF mid * mid <= n THEN SqrtIter(n, mid, hi)
                             ELSE SqrtIter(n, lo, mid - 1)

\* np.sqrt on a non-negative number, rounded down
Sqrt(n) == SqrtIter(n, 0, Min(n, 46340))


(* math.cos and math.sin of math.radians(d), d in whole degrees, for the   *)
(* angles of the model, in Q units.  cos(radians(90)) is 6.1e-17 and       *)
(* sin(radians(180)) is 1.2e-16 in floating point: 0 in Q units, and below *)
(* the 1e-6 floor on |cos|.                                                *)

Cos(d) ==
  LET r == Abs(d) % 360
  IN  CASE r = 0 -> 10000
        [] r = 15 \/ r = 345 -> 9659
        [] r = 45 \/ r = 315 -> 7071
        [] r = 60 \/ r = 300 -> 5000
        [] r = 90 \/ r = 270 -> 0
        [] r = 135 \/ r = 225 -> -7071
        [] r = 180 -> -10000

Sin(d) == Cos(d - 90)

\* 111.0 km per degree of latitude, 111.320 km per degree of longitude at
\* the equator, in KM units per degree
KmPerDegLat == 11100
KmPerDegLon == 11132
\* the 1e-6 floor on |cos|, in Q units
CosFloor == 0

\* lines 23-24 and 107-108
lon_km_per_deg(volcano_y) ==
  LET c == Cos(volcano_y \div DEG)
  IN  IF Abs(c) > CosFloor THEN Div(KmPerDegLon * c, Q) ELSE KmPerDegLon


(* Grid construction: VolcanoSimulation.__init__ *)

NoGrid == [grid_res |-> -1]

Idx(n) == (0 .. n - 1) \X (0 .. n - 1)

\* np.linspace(start, stop, num) for num >= 0 (a negative num raises)
Linspace(start, stop, num) ==
  LET step == IF num > 1 THEN Div(stop - start, num - 1) ELSE 0
  IN  [i \in 0 .. num - 1 |->
         IF num > 1 /\ i = num - 1 THEN stop ELSE start + i * step]

\* np.linspace raises ValueError for a negative number of samples
LinspaceRaises(num) == num < 0

\* the span by integer division
lat_deg_span_intdiv(extent_km) == Div(extent_km, KmPerDegLat) * DEG

\* line 22
lat_deg_span(extent_km) == Div(extent_km * DEG, KmPerDegLat)
lon_deg_span(volcano_y, extent_km) ==
  Div(extent_km * DEG, lon_km_per_deg(volcano_y))

\* the distance matrix, lines 39-41
DistGrid(XX, YY, volcano_x, volcano_y, n) ==
  [p \in Idx(n) |->
     LET dlon == Div((XX[p] - volcano_x) * lon_km_per_deg(volcano_y), DEG)
         dlat == Div((YY[p] - volcano_y) * KmPerDegLat, DEG)
     IN  Sqrt(dlon * dlon + dlat * dlat)]

\* the object __init__ leaves behind when it does not raise
NewGrid(volcano_x, volcano_y, grid_res, extent_km) ==
  LET lon_min == volcano_x - lon_deg_span(volcano_y, extent_km)
      lon_max == volcano_x + lon_deg_span(volcano_y, extent_km)
      lat_min == volcano_y - lat_deg_span(extent_km)
      lat_max == volcano_y + lat_deg_span(extent_km)
      xs == Linspace(lon_min, lon_max, grid_res)
      ys == Linspace(lat_min, lat_max, grid_res)
      XX == [p \in Idx(grid_res) |-> xs[p[2]]]
      YY == [p \in Idx(grid_res) |-> ys[p[1]]]
  IN  [volcano_x |-> volcano_x, volcano_y |-> volcano_y,
       grid_res |-> grid_res, extent_km |-> extent_km,
       lon_min |-> lon_min, lon_max |-> lon_max,
       lat_min |-> lat_min, lat_max |-> lat_max,
       XX |-> XX, YY |-> YY,
       dist_grid |-> DistGrid(XX, YY, volcano_x, volcano_y, grid_res)]


(* np.exp on a fixed-point argument.  exp(-y) for y >= 0 is e^-n times a   *)
(* Horner evaluation of the series on the fractional part; it underflows   *)
(* to 0.  exp of a positive argument is its reciprocal and saturates at    *)
(* ExpHuge where the reciprocal has underflowed.                           *)

EInv == 3679
ExpTerms == 8
ExpHuge == 1000000000

RECURSIVE Horner(_, _, _)
Horner(f, k, h) ==
  IF k = 0 THEN h ELSE Horner(f, k - 1, Q - Div(f * h, k * Q))

RECURSIVE EPow(_, _)
EPow(n, r) == IF n = 0 \/ r = 0 THEN r ELSE EPow(n - 1, Div(r * EInv, Q))

ExpNeg(y) == EPow(y \div Q, Horner(y % Q, ExpTerms, Q))

Exp(x) ==
  IF x <= 0 THEN ExpNeg(-x)
  ELSE LET e == ExpNeg(x)
       IN  IF e = 0 THEN ExpHuge ELSE Div(Q * Q, e)

(* Colour ramps: get_colormap.  A ramp is its list of anchor colours,      *)
(* evenly spaced on [0,1]; a name that is neither built in nor in the      *)
(* palette library makes cm.get_cmap raise ValueError.                     *)

BuiltinRamps == {"violet_yellow", "white_gray_black"}
LibraryRamps == {"inferno", "Greys"}

UnknownRamp(cmap_name) == cmap_name \notin BuiltinRamps \cup LibraryRamps

get_colormap(cmap_name) ==
  CASE cmap_name = "violet_yellow" ->
         << <<128, 0, 128>>, <<255, 0, 0>>, <<255, 165, 0>>, <<255, 255, 0>> >>
    [] cmap_name = "white_gray_black" ->
         << <<255, 255, 255>>, <<136, 136, 136>>, <<0, 0, 0>> >>
    [] cmap_name = "inferno" ->
         << <<0, 0, 4>>, <<87, 16, 110>>, <<188, 55, 84>>,
            <<249, 142, 9>>, <<252, 255, 164>> >>
    [] cmap_name = "Greys" ->
         << <<255, 255, 255>>, <<150, 150, 150>>, <<0, 0, 0>> >>

(* The rasterizer: _array_to_rgba.  The normalized value of a cell is the  *)
(* exact ratio a / (b + 1e-12) with a = v - min and b = max - min, both in *)
(* Q units; 1e-12 is far below one unit, so floor(num / (den + tiny)) is   *)
(* num \div den, less one when den divides num > 0.                        *)

FloorEps(num, den) ==
  IF num = 0 THEN 0
  ELSE IF num % den = 0 THEN (num \div den) - 1 ELSE num \div den

RECURSIVE FoldMin(_, _, _)
FoldMin(f, S, m) ==
  IF S = {} THEN m
  ELSE LET p == CHOOSE x \in S : TRUE
       IN  FoldMin(f, S \ {p}, Min(m, f[p]))

RECURSIVE FoldMax(_, _, _)
FoldMax(f, S, m) ==
  IF S = {} THEN m
  ELSE LET p == CHOOSE x \in S : TRUE
       IN  FoldMax(f, S \ {p}, Max(m, f[p]))

\* np.min / np.max of a non-empty array (an empty one raises ValueError)
ArrayMin(f) == LET p == CHOOSE x \in DOMAIN f : TRUE
               IN  FoldMin(f, DOMAIN f, f[p])
ArrayMax(f) == LET p == CHOOSE x \in DOMAIN f : TRUE
               IN  FoldMax(f, DOMAIN f, f[p])
ReduceRaises(f) == DOMAIN f = {}

\* (cmap(normed) * 255).astype(np.uint8), one colour channel c of the ramp:
\* the ramp has a 256-entry table, entry i interpolated at i / 255
RampByte(ramp, c, a, b) ==
  LET i == Min(255, FloorEps(256 * a, b))
      m == Len(ramp) - 1
      k == (i * m) \div 255
      r == (i * m) % 255
  IN  IF k >= m THEN ramp[m + 1][c]
      ELSE (ramp[k + 1][c] * 255 + (ramp[k + 2][c] - ramp[k + 1][c]) * r) \div 255

\* (np.clip(normed * 1.5, 0, 1) * 255).astype(np.uint8)
AlphaByte(a, b) ==
  IF 3 * a > 2 * b THEN 255 ELSE FloorEps(765 * a, 2 * b)

array_to_rgba(array, cmap_name) ==
  LET ramp == get_colormap(cmap_name)
      minv == ArrayMin(array)
      maxv == ArrayMax(array)
  IN  [p \in DOMAIN array |->
         LET a == array[p] - minv
             b == maxv - minv
         IN  <<RampByte(ramp, 1, a, b), RampByte(ramp, 2, a, b),
               RampByte(ramp, 3, a, b), AlphaByte(a, b)>>]

\* np.zeros((*self.dist_grid.shape, 4), dtype=np.uint8)
EmptyRaster(g) == [p \in DOMAIN g.dist_grid |-> <<0, 0, 0, 0>>]

(* Steps shared by the two field models *)

\* the guard without its test of the cutoff
DegenerateRadiusOnly(radius, max_radius) == radius <= 0

\* lines 72 and 96: radius <= 0 or max_radius <= 0
Degenerate(radius, max_radius) == radius <= 0 \/ max_radius <= 0

\* the contrast boost without its clip
BoostNoClip(v) == v * 2

\* lines 87 and 131: np.clip(v * 2.0, 0.0, 1.0)
Boost(v) == Clip(v * 2, 0, Q)

(* The damage field: compute_damage_overlay, lines 77-87 *)

\* the cutoff taken in metres, as the caller's hazard circle is
DamageCutMetres(d, max_radius, v) == IF d > max_radius * 1000 THEN 0 ELSE v

\* line 86: damage[self.dist_grid > max_radius] = 0.0
DamageCut(d, max_radius, v) == IF d > max_radius THEN 0 ELSE v

\* the 1e-6 km floors of lines 77 and 122, in KM units
TinyKm == 0

DamageField(g, radius, scale, eq_mag_num, max_radius) ==
  LET scale_factor == Clip(Div(scale * Q, 4), 0, Q)
      quake_factor == Clip(Div(eq_mag_num * Q, 7), 0, Q)
      falloff_km == Max(KM, Div(max_radius, 6))
  IN  [p \in DOMAIN g.dist_grid |->
         LET d == g.dist_grid[p]
             base == Clip(Q - Div(d * Q, Max(radius, TinyKm)), 0, Q)
             raw == Div(Div(base * scale_factor, Q) * quake_factor, Q)
             att == Div(raw * Exp(-Div(d * Q, falloff_km)), Q)
         IN  Boost(DamageCut(d, max_radius, att))]

(* The ash field: compute_ash_overlay, lines 100-131 *)

\* (x / y) ** 2 in Q units, the ratio itself kept in RQ units
SqRatio(x, y) == LET r == Div(x * RQ, y) IN r * r

\* the plume sent where the wind comes from
PlumeAngleFrom(wind_dir) == wind_dir % 360

\* line 101: the compass direction the plume travels towards
PlumeAngle(wind_dir) == (wind_dir + 180) % 360

\* line 130: ash[self.dist_grid > max_radius * 1.5] = 0.0
AshCut(d, max_radius, v) == IF 2 * d > 3 * max_radius THEN 0 ELSE v

\* the rescale without the 1 km floor on the cutoff
AshRescaleNoFloor(radius, max_radius) ==
  Clip(Div(Div(radius * Q, max_radius) * 12, 10) + Div(5 * Q, 100), 0, Q)

\* line 129: np.clip((radius / max(1.0, max_radius)) * 1.2 + 0.05, 0, 1)
AshRescale(radius, max_radius) ==
  Clip(Div(Div(radius * Q, Max(KM, max_radius)) * 12, 10) + Div(5 * Q, 100),
       0, Q)

\* lines 100-125: the plume before normalization; parallel is kept with it
AshPlume(g, radius, wind_dir, wind_speed, max_radius) ==
  LET ash_angle_deg == PlumeAngle(wind_dir)
      ux == Sin(ash_angle_deg)
      uy == Cos(ash_angle_deg)
      wind_factor == Max(Q \div 10, Div(wind_speed * Q, 10))
      parallel_sigma ==
        Max(KM, Div(Div((radius + KM) * 4, 10) * wind_factor, Q))
      perp_sigma == Max(KM \div 2, Div(radius + KM, 4))
      atten_km == Max(KM, Div(max_radius, 3))
  IN  [p \in DOMAIN g.dist_grid |->
         LET RX_km == Div((g.XX[p] - g.volcano_x) * lon_km_per_deg(g.volcano_y),
                          DEG)
             RY_km == Div((g.YY[p] - g.volcano_y) * KmPerDegLat, DEG)
             parallel == Div(RX_km * ux + RY_km * uy, Q)
             perp == Div(-RX_km * uy + RY_km * ux, Q)
             gauss == Exp(-Div(SqRatio(parallel, parallel_sigma)
                               + SqRatio(perp, perp_sigma), 2))
             bias == Div(Q * Q,
                         Q + Exp(Div(-8 * parallel * Q,
                                     10 * Max(parallel_sigma, TinyKm))))
             radial_atten == Exp(-Div(g.dist_grid[p] * Q, atten_km))
         IN  [parallel |-> parallel, perp |-> perp,
              ash |-> Div(Div(gauss * bias, Q) * radial_atten, Q)]]

\* lines 127-131, on a non-empty plume
AshField(g, radius, wind_dir, wind_speed, max_radius) ==
  LET plume == AshPlume(g, radius, wind_dir, wind_speed, max_radius)
      ash == [p \in DOMAIN plume |-> plume[p].ash]
      max_ash == ArrayMax(ash)
      rescale == AshRescale(radius, max_radius)
  IN  [p \in DOMAIN ash |->
         LET normed == IF max_ash > 0 THEN Div(ash[p] * Q, max_ash) ELSE ash[p]
             scaled == Div(normed * rescale, Q)
         IN  Boost(AshCut(g.dist_grid[p], max_radius, scaled))]

(* The two overlay methods.  A call leaves the object `self` behind and    *)
(* either returns a raster or raises; `field` is the intensity array that  *)
(* reached the rasterizer (handed = TRUE), `parallel` and `rescale` are    *)
(* the ash model's downwind coordinate and line-129 factor.                *)

Returned(raster, field, handed, parallel, rescale) ==
  [status |-> "ok", raster |-> raster, field |-> field, handed |-> handed,
   parallel |-> parallel, rescale |-> rescale]

Raised(error, field, handed, parallel, rescale) ==
  [status |-> error, raster |-> << >>, field |-> field, handed |-> handed,
   parallel |-> parallel, rescale |-> rescale]

\* an unknown name falling back to the default palette
RasterizeFallback(array, cmap_name, parallel, rescale) ==
  IF ReduceRaises(array)
    THEN Raised("ValueError", array, TRUE, parallel, rescale)
    ELSE Returned(array_to_rgba(array, IF UnknownRamp(cmap_name)
                                         THEN "inferno" ELSE cmap_name),
                  array, TRUE, parallel, rescale)

\* _array_to_rgba, with its ways to raise: get_colormap on line 57, then
\* np.min of an empty array on line 58
Rasterize(array, cmap_name, parallel, rescale) ==
  IF UnknownRamp(cmap_name) \/ ReduceRaises(array)
    THEN Raised("ValueError", array, TRUE, parallel, rescale)
    ELSE Returned(array_to_rgba(array, cmap_name), array, TRUE,
                  parallel, rescale)

\* the field built in place in the storage of self.dist_grid
compute_damage_overlay_aliased(self, a) ==
  IF Degenerate(a.radius, a.max_radius)
    THEN [self |-> self,
          ret |-> Returned(EmptyRaster(self), << >>, FALSE, << >>, 0)]
    ELSE LET damage == DamageField(self, a.radius, a.scale, a.eq_mag_num,
                                   a.max_radius)
         IN  [self |-> [self EXCEPT !.dist_grid = damage],
              ret |-> Rasterize(damage, a.cmap_name, << >>, 0)]

compute_damage_overlay(self, a) ==
  [self |-> self,
   ret |-> IF Degenerate(a.radius, a.max_radius)
             THEN Returned(EmptyRaster(self), << >>, FALSE, << >>, 0)
             ELSE Rasterize(DamageField(self, a.radius, a.scale, a.eq_mag_num,
                                        a.max_radius),
                            a.cmap_name, << >>, 0)]

compute_ash_overlay(self, a) ==
  [self |-> self,
   ret |-> IF Degenerate(a.radius, a.max_radius)
             THEN Returned(EmptyRaster(self), << >>, FALSE, << >>, 0)
             ELSE IF ReduceRaises(self.dist_grid)
               \* np.max of the empty plume on line 127
               THEN Raised("ValueError", << >>, FALSE, << >>, 0)
               ELSE LET plume == AshPlume(self, a.radius, a.wind_dir,
                                          a.wind_speed, a.max_radius)
                    IN  Rasterize(AshField(self, a.radius, a.wind_dir,
                                           a.wind_speed, a.max_radius),
                                  a.cmap_name,
                                  [p \in DOMAIN plume |-> plume[p].parallel],
                                  AshRescale(a.radius, a.max_radius))]

(* Inputs *)

MaxRes == 3

Lons == {-180 * DEG, 0, 121 * DEG}
Lats == {-90 * DEG, -60 * DEG, 0, 15 * DEG, 60 * DEG, 90 * DEG}
Resolutions == -1 .. MaxRes
Extents == {-10 * KM, 0, 2 * KM, 20 * KM, 60 * KM}

\* "plasmaa" is in no palette
Ramps == {"violet_yellow", "white_gray_black", "inferno", "Greys", "plasmaa"}

DamageArgs(radii, scales, mags, cutoffs, ramps) ==
  [radius : radii, scale : scales, eq_mag_num : mags, max_radius : cutoffs,
   cmap_name : ramps]

AshArgs(radii, dirs, speeds, cutoffs, ramps) ==
  [radius : radii, wind_dir : dirs, wind_speed : speeds, max_radius : cutoffs,
   cmap_name : ramps]

\* the objects and calls of the life cycle
LifeLats == {15 * DEG}
LifeExtents == {0, 2 * KM}
LifeDamage ==
  DamageArgs({0, 6 * KM}, {4}, {3}, {0, 12 * KM}, {"violet_yellow", "plasmaa"})
LifeAsh ==
  AshArgs({0, 6 * KM}, {90}, {20}, {0, 12 * KM}, {"Greys", "plasmaa"})

\* the grids and calls the field models are evaluated on
FieldLats == {-60 * DEG, 0, 15 * DEG, 90 * DEG}
FieldExtents == {2 * KM, 20 * KM, 60 * KM}
FieldDamage ==
  DamageArgs({-1 * KM, 6 * KM, 25 * KM}, {-1, 0, 2, 4, 5}, {3, 7, 9},
             {0, KM \div 2, 12 * KM, 50 * KM}, {"inferno", "plasmaa"})
FieldAsh ==
  AshArgs({0, KM \div 10, 6 * KM, 25 * KM}, {0, 45, 90, 135, 180, 270},
          {0, 10, 50},
          {-1 * KM, KM \div 2, 12 * KM, 50 * KM}, {"white_gray_black", "plasmaa"})

(* The state machine *)

NoCall == [op |-> "none"]

Call(op, a, ret) == [op |-> op, args |-> a] @@ ret

SameCall(c, d) == c.op = d.op /\ c.op # "none" /\ c.args = d.args

Init ==
  /\ grid = NoGrid
  /\ build = "new"
  /\ first = NoCall
  /\ last = NoCall
  /\ between = FALSE

\* VolcanoSimulation(volcano_x, volcano_y, grid_res, extent_km) returns
Construct(x, y, n, e) ==
  /\ build = "new"
  /\ ~LinspaceRaises(n)
  /\ grid' = NewGrid(x, y, n, e)
  /\ build' = "ok"
  /\ UNCHANGED <<first, last, between>>

\* VolcanoSimulation(...) raises: np.linspace on line 34
ConstructRaises(x, y, n, e) ==
  /\ build = "new"
  /\ LinspaceRaises(n)
  /\ build' = "ValueError"
  /\ UNCHANGED <<grid, first, last, between>>

Record(call) ==
  /\ last' = call
  /\ first' = IF first = NoCall THEN call ELSE first
  /\ between' = (between \/ (first # NoCall /\ ~SameCall(call, first)))

DamageCall(a) ==
  /\ build = "ok"
  /\ LET r == compute_damage_overlay(grid, a)
     IN  grid' = r.self /\ Record(Call("damage", a, r.ret))
  /\ UNCHANGED build

AshCall(a) ==
  /\ build = "ok"
  /\ LET r == compute_ash_overlay(grid, a)
     IN  grid' = r.self /\ Record(Call("ash", a, r.ret))
  /\ UNCHANGED build

Build ==
  \E y \in LifeLats, n \in Resolutions, e \in LifeExtents :
    Construct(121 * DEG, y, n, e)
BuildRaises ==
  \E y \in LifeLats, n \in Resolutions, e \in LifeExtents :
    ConstructRaises(121 * DEG, y, n, e)
Damage == \E a \in LifeDamage : DamageCall(a)
Ash == \E a \in LifeAsh : AshCall(a)

Next == Build \/ BuildRaises \/ Damage \/ Ash

Spec == Init /\ [][Next]_vars

(* Construction alone, on the full range of parameters *)

BuildAny ==
  \E x \in Lons, y \in Lats, n \in Resolutions, e \in Extents :
    Construct(x, y, n, e)
BuildAnyRaises ==
  \E x \in Lons, y \in Lats, n \in Resolutions, e \in Extents :
    ConstructRaises(x, y, n, e)

NextBuild == BuildAny \/ BuildAnyRaises

SpecBuild == Init /\ [][NextBuild]_vars

(* The field models as functions: a well-formed grid, one call *)

ValidGrids ==
  {NewGrid(121 * DEG, y, n, e) :
     y \in FieldLats, n \in 2 .. MaxRes, e \in FieldExtents}

InitField ==
  /\ grid \in ValidGrids
  /\ build = "ok"
  /\ first = NoCall
  /\ last = NoCall
  /\ between = FALSE

EvalDamage == last = NoCall /\ \E a \in FieldDamage : DamageCall(a)
EvalAsh == last = NoCall /\ \E a \in FieldAsh : AshCall(a)

NextField == EvalDamage \/ EvalAsh

SpecField == InitField /\ [][NextField]_vars

(* ---------------------------------------------------------------------- *)
(* Claims                                                                  *)
(* ---------------------------------------------------------------------- *)

Called == last.op # "none"
DegenerateCall ==
  Called /\ (last.args.radius <= 0 \/ last.args.max_radius <= 0)
\* a call with radius > 0 and cutoff_radius > 0
Proper == Called /\ last.args.radius > 0 /\ last.args.max_radius > 0
Points == DOMAIN grid.dist_grid

\* C1: a damage or ash call with radius <= 0 or cutoff_radius <= 0 returns,
\* without raising, a raster of the grid's shape whose every channel is 0,
\* whatever the grid and the other arguments (the ramp name included).
C1_DegenerateIsSilent ==
  DegenerateCall =>
    /\ last.status = "ok"
    /\ DOMAIN last.raster = Idx(grid.grid_res)
    /\ \A p \in DOMAIN last.raster : last.raster[p] = <<0, 0, 0, 0>>

C1_Witness ==
  /\ DegenerateCall
  /\ last.op = "ash"
  /\ last.args.radius > 0
  /\ UnknownRamp(last.args.cmap_name)
  /\ grid.grid_res >= 2
  /\ last.status = "ok"

\* C2: a grid built with resolution < 2 or extent_km <= 0 is rejected at
\* build time: construction never returns an object for such parameters.
C2_InvalidParametersRejected ==
  build = "ok" => grid.grid_res >= 2 /\ grid.extent_km > 0

\* C3 (as stated): an unknown ramp name is rejected with an error on every
\* damage or ash call, the calls with radius <= 0 or cutoff_radius <= 0
\* included.
C3_UnknownRampAlwaysRejected ==
  Called /\ UnknownRamp(last.args.cmap_name) => last.status # "ok"

\* C3 (amended): an unknown ramp name is rejected with an error on every
\* damage or ash call with radius > 0 and cutoff_radius > 0; no such call
\* returns a raster.
C3_UnknownRampRejected ==
  Proper /\ UnknownRamp(last.args.cmap_name) =>
    last.status = "ValueError" /\ last.raster = << >>

C3_Witness ==
  /\ Proper
  /\ UnknownRamp(last.args.cmap_name)
  /\ grid.grid_res >= 2
  /\ last.op = "damage"
  /\ last.status = "ValueError"

\* C4: with radius > 0 and cutoff_radius > 0, the damage intensity is 0 at
\* every grid point farther than cutoff_radius from the centre, and the ash
\* intensity is 0 at every grid point farther than 1.5 x cutoff_radius.
C4_ZeroBeyondCutoff ==
  Proper /\ last.handed =>
    \A p \in Points :
      /\ last.op = "damage" /\ grid.dist_grid[p] > last.args.max_radius
           => last.field[p] = 0
      /\ last.op = "ash" /\ 2 * grid.dist_grid[p] > 3 * last.args.max_radius
           => last.field[p] = 0

\* a damage field with a point inside the cutoff that is lit and a point
\* between the cutoff and the nominal radius that is dark
C4_Witness ==
  /\ Proper /\ last.handed /\ last.op = "damage"
  /\ \E p, q \in Points :
       /\ grid.dist_grid[p] > last.args.max_radius
       /\ grid.dist_grid[p] < last.args.radius
       /\ last.field[p] = 0
       /\ last.field[q] > 0

\* C5: in a returned raster, alpha is 0 wherever the intensity is 0 and 255
\* wherever the intensity is exactly 1, for every field, also one whose
\* values are all equal.
C5_AlphaFollowsIntensity ==
  Proper /\ last.status = "ok" =>
    \A p \in Points :
      /\ last.field[p] = 0 => last.raster[p][4] = 0
      /\ last.field[p] = Q => last.raster[p][4] = 255

\* C6: every value of the intensity field handed to the rasterizer lies in
\* [0,1].
C6_IntensityInUnitInterval ==
  Proper /\ last.handed =>
    \A p \in Points : 0 <= last.field[p] /\ last.field[p] <= Q

\* a field that saturates at one point and is strictly inside (0,1) at another
C6_Witness ==
  /\ Proper /\ last.handed
  /\ \E p, q \in Points :
       last.field[p] = Q /\ last.field[q] > 0 /\ last.field[q] < Q

\* C7: no damage or ash call changes the grid (bounding box, coordinate
\* matrices, distance matrix), and a call repeated with the arguments of an
\* earlier call has the outcome of that earlier call, whatever was called in
\* between.
C7_GridFrozenAndCallsRepeatable ==
  [][build = "ok" =>
       /\ grid' = grid
       /\ SameCall(last', first') =>
            last'.status = first'.status /\ last'.raster = first'.raster]_vars

\* the first call made again after a different call, returning a lit raster
C7_Witness ==
  /\ between
  /\ SameCall(last, first)
  /\ last.status = "ok"
  /\ \E p \in Points : last.raster[p][4] > 0

\* C8: for valid parameters (latitude in [-90, 90], resolution >= 2,
\* extent_km > 0) the bounding box is centre -/+ a positive span on each
\* axis, so it strictly contains the centre, also where |cos(latitude)| is
\* under 1e-6.
C8_BoxContainsCentre ==
  build = "ok" /\ grid.grid_res >= 2 /\ grid.extent_km > 0 =>
    /\ grid.lon_min < grid.volcano_x /\ grid.volcano_x < grid.lon_max
    /\ grid.lat_min < grid.volcano_y /\ grid.volcano_y < grid.lat_max
    /\ grid.volcano_x - grid.lon_min = grid.lon_max - grid.volcano_x
    /\ grid.volcano_y - grid.lat_min = grid.lat_max - grid.volcano_y

\* a valid grid at the pole, where the floor on |cos| applies
C8_Witness ==
  /\ build = "ok" /\ grid.grid_res >= 2 /\ grid.extent_km > 0
  /\ Abs(Cos(grid.volcano_y \div DEG)) <= CosFloor
  /\ grid.lon_min < grid.volcano_x

\* C9: for wind_dir in {0, 90, 180, 270} the downwind coordinate is positive
\* exactly at the grid points on the side the wind blows towards (south of
\* the centre for wind from the north, west for wind from the east, ...),
\* and the intensity at a downwind point is at least the intensity at its
\* mirror image on the upwind side.
Downwind(p) ==
  CASE last.args.wind_dir = 0   -> grid.YY[p] < grid.volcano_y
    [] last.args.wind_dir = 90  -> grid.XX[p] < grid.volcano_x
    [] last.args.wind_dir = 180 -> grid.YY[p] > grid.volcano_y
    [] last.args.wind_dir = 270 -> grid.XX[p] > grid.volcano_x

\* q is p reflected in the crosswind line through the centre
Mirror(p, q) ==
  IF last.args.wind_dir \in {0, 180}
    THEN /\ grid.XX[q] = grid.XX[p]
         /\ grid.YY[q] - grid.volcano_y = grid.volcano_y - grid.YY[p]
    ELSE /\ grid.YY[q] = grid.YY[p]
         /\ grid.XX[q] - grid.volcano_x = grid.volcano_x - grid.XX[p]

StatedFactor(radius, cutoff) ==
  Clip(Div(Div(radius * Q, cutoff) * 12, 10) + 500, 0, Q)

\* C10 (as stated): for every radius > 0 and cutoff_radius > 0, cutoff_radius
\* under 1 included, the normalized ash field is rescaled by
\* clamp((radius / cutoff_radius) x 1.2 + 0.05, 0, 1).
C10_RescaleAsStated ==
  Proper /\ last.op = "ash" /\ last.handed =>
    last.rescale = StatedFactor(last.args.radius, last.args.max_radius)

\* C10 (amended): the normalized ash field is rescaled by
\* clamp((radius / max(1, cutoff_radius)) x 1.2 + 0.05, 0, 1): the stated
\* factor when cutoff_radius >= 1 and clamp(radius x 1.2 + 0.05, 0, 1) when
\* cutoff_radius < 1; no value of the final field exceeds twice the factor.
C10_RescaleFloorsCutoff ==
  Proper /\ last.op = "ash" /\ last.handed =>
    /\ last.rescale =
         IF last.args.max_radius >= KM
           THEN StatedFactor(last.args.radius, last.args.max_radius)
           ELSE StatedFactor(last.args.radius, KM)
    /\ \A p \in Points : last.field[p] <= Clip(2 * last.rescale, 0, Q)

\* a cutoff under 1 km where the floor changes the factor, and the field's
\* maximum is the factor doubled
C10_Witness ==
  /\ Proper /\ last.op = "ash" /\ last.handed
  /\ last.args.max_radius < KM
  /\ last.rescale # StatedFactor(last.args.radius, last.args.max_radius)
  /\ \E p \in Points : last.field[p] = 2 * last.rescale /\ last.field[p] > 0

====
